---------------------------- MODULE Spec2Model ----------------------------
(***************************************************************************)
(* A model of src/commands/model.cpp of batch-learn: the batch and         *)
(* mini-batch planners, the dropout mask generator, the three batch        *)
(* runners (train_on_dataset, evaluate_on_dataset, predict_on_dataset)     *)
(* with their OpenMP worker teams, and model_command::run.                 *)
(*                                                                         *)
(* Scaling.  The capacities of the source (batch_size 20000,               *)
(* mini_batch_size 24, dropout_mask_max_size 4000) and the widths of its   *)
(* integer types (uint32_t, uint64_t) are kept as named definitions but    *)
(* with small values, so that several batches, a short last batch, a mask  *)
(* larger than the buffer and a 32-bit wrap all happen on datasets of a    *)
(* few examples.  The shuffle generator std::default_random_engine         *)
(* (minstd_rand0: x' = 16807 * x mod 2^31-1) is kept as a multiplicative   *)
(* congruential generator with a small prime modulus.                      *)
(***************************************************************************)
EXTENDS Integers, Sequences, FiniteSets, TLC

\* ------------------------------------------------------------- bounds
\* const uint32_t batch_size = 20000 (scaled)
batch_size == 3
\* const uint32_t mini_batch_size = 24 (scaled)
mini_batch_size == 2
\* const uint32_t dropout_mask_max_size = 4000, in 64-bit words (scaled)
dropout_mask_max_size == 2
\* bits of uint32_t (scaled from 32) and of uint64_t (scaled from 64)
UINT32_BITS == 2
UINT64_BITS == 6
\* bits of a word of a dropout mask (a uint64_t of the source, scaled)
MASK_WORD_BITS == 2
\* the largest n_examples, begin and end handed to the planners alone
MaxPlanExamples == 10
\* the largest n_threads, n_epochs and seed of the command line
MaxThreads == 2
MaxEpochs == 2
MaxSeed == 2
\* the largest zero_prob_log handed to fill_mask_rand alone
MaxZeroProbLog == 2
\* the largest offset an index holds
MaxOffset == 2

\* ------------------------------------------------------------- integers
RECURSIVE Pow2(_)
Pow2(k) == IF k = 0 THEN 1 ELSE 2 * Pow2(k - 1)

\* the value an unsigned integer of the given width keeps
U32(x) == x % Pow2(UINT32_BITS)
U64(x) == x % Pow2(UINT64_BITS)

\* template <typename T> T min(T a, T b)
min_first(a, b) == a
min(a, b) == IF a < b THEN a ELSE b

\* ------------------------------------------------------------- rnd
\* std::default_random_engine: the multiplier and modulus of minstd_rand0
RndMul == 3
RndMod == 7

\* the engine's state after seed(s): s mod m, and 1 when that is 0
rnd_seed(s) == IF s % RndMod = 0 THEN 1 ELSE s % RndMod

\* one call rnd(): the next state, which is also the value drawn
rnd_next(x) == (RndMul * x) % RndMod

\* the state of the global rnd(2017) after static initialisation
RndInitial == rnd_seed(2017)

swap(v, i, j) == [v EXCEPT ![i] = v[j], ![j] = v[i]]

\* one step of std::shuffle: position i is swapped with the position the
\* value x1 just drawn selects among 1..i
shuffle_step(v, i, x1) == swap(v, i, 1 + (x1 % i))

\* std::shuffle(first, last, rnd): position i is swapped with a position
\* drawn from 1..i, for i = 2..Len(v); one call of rnd per position.
RECURSIVE shuffle_from(_, _, _)
shuffle_from(v, i, x) ==
    IF i > Len(v) THEN [v |-> v, rnd |-> x]
    ELSE LET x1 == rnd_next(x)
         IN  shuffle_from(shuffle_step(v, i, x1), i + 1, x1)

shuffle_dup(v, x) == [v |-> [i \in 1..Len(v) |-> v[1]], rnd |-> x]
shuffle(v, x) == shuffle_from(v, 2, x)

\* ------------------------------------------------------------- planners
\* the loop of generate_batches: for (batch_start = from; batch_start < n; += batch_size)
RECURSIVE batch_loop(_, _)
batch_loop(batch_start, n_examples) ==
    IF batch_start < n_examples
    THEN <<<<batch_start, min(batch_start + batch_size, n_examples)>>>>
         \o batch_loop(batch_start + batch_size, n_examples)
    ELSE <<>>

\* batch_learn_dataset::generate_batches(shuffle), with the state x of rnd:
\* the batches and the state rnd is left in
generate_batches(n_examples, do_shuffle, x) ==
    LET batches == batch_loop(0, n_examples)
    IN  IF do_shuffle THEN shuffle(batches, x)
        ELSE [v |-> batches, rnd |-> x]

\* generate_mini_batches(begin, end)
RECURSIVE generate_mini_batches(_, _)
generate_mini_batches_whole(begin, end) ==
    IF begin < end THEN <<<<begin, end>>>> ELSE <<>>
generate_mini_batches(begin, end) ==
    IF begin < end
    THEN <<<<begin, min(begin + mini_batch_size, end)>>>>
         \o generate_mini_batches(begin + mini_batch_size, end)
    ELSE <<>>

\* ------------------------------------------------------------- state
VARIABLES
    plan,           \* a planner call on its own: its arguments and its result
    cfg,            \* model_command: n_threads, n_epochs, seed and the file names
    pc,             \* where run() is
    error,          \* the message of the exception that ended the run
    ds_train,       \* the datasets' indexes, once loaded
    ds_val,
    ds_test,
    epoch,          \* the loop variable of run()
    rnd,            \* the state of the global shuffle generator
    pass,           \* the pass being run or just finished, and the cnt it reported
    batches,        \* the pass's batches
    next_bi,        \* the next loop iteration to hand out
    claimed,        \* per batch of the pass, the workers that were handed it
    predict_calls,  \* per example of the pass, the calls of m.predict
    update_calls,   \* per example of the pass, the calls of m.update
    predictions,    \* the predictions vector of evaluate_on_dataset
    out,            \* the prediction output file
    workers,        \* each thread's locals inside a pass
    totals,         \* calls made since the start of the run
    mask_oob        \* a mask word outside dropout_mask[] has been written

vars == <<plan, cfg, pc, error, ds_train, ds_val, ds_test, epoch, rnd, pass,
          batches, next_bi, claimed, predict_calls, update_calls, predictions,
          out, workers, totals, mask_oob>>

\* what a pass leaves alone
dsvars == <<plan, cfg, ds_train, ds_val, ds_test>>

NoPlan == [fn |-> "none"]
NoMask == [filled |-> "no", of |-> 0]
NoSlot == [writes |-> 0, by |-> 0, of |-> 0]
NoDataset == [loaded |-> FALSE, n_examples |-> 0, n_index_bits |-> 0]
NoPass == [kind |-> "none", done |-> FALSE, n_examples |-> 0, cnt |-> 0, mask |-> <<>>,
           updates0 |-> 0]
\* the arguments of a thread's latest m.predict and m.update of the batch in
\* hand: the example, the mask and the dropout multiplier
NoCall == [ei |-> -1, mask |-> <<>>, mult |-> 0]
IdleWorker == [pc |-> "idle", bi |-> 0, batch |-> <<0, 0>>, mini_batches |-> <<>>,
               si |-> 0, r |-> 0, mb |-> 0, ei |-> 0, cnt |-> 0, mask |-> NoMask,
               predicted |-> NoCall, updated |-> NoCall]

\* the n_examples a dataset file may state: none, one, a full batch and a
\* short one, two full batches
ExampleCounts == {0, 1, batch_size + 1, 2 * batch_size}
\* the n_index_bits the training file states, and those another file may state
TrainIndexBits == {20}
IndexBits == {18, 20}
\* what m.get_dropout_mask_size may return for an example, in bits: a mask of
\* one word, one that fills dropout_mask[] and one that is a bit too long
MaskSizes == {1, MASK_WORD_BITS * dropout_mask_max_size,
              MASK_WORD_BITS * dropout_mask_max_size + 1}
\* the bits of a mask word, a word being the set of its bits that are 1, and
\* what a buffer of dropout_mask_max_size words may hold
Bits == 0..(MASK_WORD_BITS - 1)
Words == SUBSET Bits
MaskBuffers == [1..dropout_mask_max_size -> Words]
\* uint dropout_prob_log = 1
dropout_prob_log == 1

Threads == 1..MaxThreads
\* the team of a parallel region: omp_set_num_threads(n_threads)
Team == 1..cfg.n_threads

ErrVal == "Mismatching index bits in train and val"
ErrTest == "Mismatching index bits in train and test"
ErrRand == "Error generating random number!"

Init ==
    /\ plan = NoPlan
    /\ cfg \in [n_threads : 1..MaxThreads, n_epochs : 0..MaxEpochs, seed : 1..MaxSeed,
                val_file_name : {"", "val"}, test_file_name : {"", "test"},
                pred_file_name : {"", "pred"}]
    /\ pc = "start"
    /\ error = ""
    /\ ds_train = NoDataset
    /\ ds_val = NoDataset
    /\ ds_test = NoDataset
    /\ epoch = 0
    /\ rnd = RndInitial
    /\ pass = NoPass
    /\ batches = <<>>
    /\ next_bi = 0
    /\ claimed = <<>>
    /\ predict_calls = <<>>
    /\ update_calls = <<>>
    /\ predictions = <<>>
    /\ out = [created |-> FALSE, lines |-> <<>>]
    /\ workers = [w \in Threads |-> IdleWorker]
    /\ totals = [reads |-> 0, predicts |-> 0, updates |-> 0,
                 train |-> 0, evaluate |-> 0, predict |-> 0,
                 failed_draws |-> 0]
    /\ mask_oob = FALSE

\* ------------------------------------------------------------- run(): loading
\* batch_learn_dataset(file_name): the index read from the file
read_index(n, bits) == [loaded |-> TRUE, n_examples |-> n, n_index_bits |-> bits]

\* run(), up to the first branch: the thread count, the seed, the training
\* index and the model
\* rnd.seed(seed), before any dataset is loaded
seeded_never(x, seed) == x
seeded(x, seed) == rnd_seed(seed)

Start ==
    /\ pc = "start"
    /\ rnd' = seeded(rnd, cfg.seed)
    /\ \E n \in ExampleCounts, bits \in TrainIndexBits : ds_train' = read_index(n, bits)
    /\ pc' = IF cfg.val_file_name = "" THEN "epoch" ELSE "load_val"
    /\ UNCHANGED <<plan, cfg, error, ds_val, ds_test, epoch, pass, batches, next_bi,
                   claimed, predict_calls, update_calls, predictions, out, workers,
                   totals, mask_oob>>

\* the validation branch: the index is loaded and its n_index_bits compared
val_mismatch_ignored(val, train) == FALSE
val_mismatch(val, train) == val.n_index_bits # train.n_index_bits

LoadVal ==
    /\ pc = "load_val"
    /\ \E n \in ExampleCounts, bits \in IndexBits :
          /\ ds_val' = read_index(n, bits)
          /\ IF val_mismatch(ds_val', ds_train)
             THEN pc' = "fatal" /\ error' = ErrVal
             ELSE pc' = "epoch" /\ error' = error
    /\ UNCHANGED <<plan, cfg, ds_train, ds_test, epoch, rnd, pass, batches, next_bi,
                   claimed, predict_calls, update_calls, predictions, out, workers,
                   totals, mask_oob>>

\* ------------------------------------------------------------- the team
\* the threads of the team start the loop; the others stay out of it
StartTeam_master_only == [w \in Threads |-> IF w = 1 THEN [IdleWorker EXCEPT !.pc = "claim"]
                                             ELSE IdleWorker]
StartTeam == [w \in Threads |-> IF w \in Team THEN [IdleWorker EXCEPT !.pc = "claim"]
                                 ELSE IdleWorker]
AllJoined_nowait == \E w \in Team : workers[w].pc = "joined"
AllJoined == \A w \in Team : workers[w].pc = "joined"

\* the sum the reduction(+: cnt) leaves in cnt: the original value and every
\* thread's private copy
RECURSIVE SumCnt(_)
SumCnt(S) == IF S = {} THEN 0
             ELSE LET w == CHOOSE x \in S : TRUE
                  IN  workers[w].cnt + SumCnt(S \ {w})
reduction_first == workers[1].cnt
reduction == SumCnt(Team)

\* schedule(dynamic, 1): the iteration handed to the thread that asks next
dispatch_same == IF next_bi > 0 THEN next_bi - 1 ELSE next_bi
dispatch == next_bi

\* the first example at or after (mb, ei) in the mini-batch order, or none
RECURSIVE seek(_, _, _)
seek_first_only(mini_batches, mb, ei) ==
    IF mb <= Len(mini_batches) /\ ei < mini_batches[mb][2]
    THEN [more |-> TRUE, mb |-> mb, ei |-> ei]
    ELSE [more |-> FALSE, mb |-> mb + 1, ei |-> 0]
seek(mini_batches, mb, ei) ==
    IF mb > Len(mini_batches) THEN [more |-> FALSE, mb |-> mb, ei |-> 0]
    ELSE IF ei < mini_batches[mb][2] THEN [more |-> TRUE, mb |-> mb, ei |-> ei]
    ELSE IF mb = Len(mini_batches) THEN [more |-> FALSE, mb |-> mb + 1, ei |-> 0]
    ELSE seek(mini_batches, mb + 1, mini_batches[mb + 1][1])

\* the thread at the head of the example loops of train_on_dataset
enter_examples(rec) ==
    LET first == IF Len(rec.mini_batches) = 0 THEN 0 ELSE rec.mini_batches[1][1]
        at == seek(rec.mini_batches, 1, first)
    IN  IF at.more THEN [rec EXCEPT !.pc = "mask", !.mb = at.mb, !.ei = at.ei]
        ELSE [rec EXCEPT !.pc = "batch_end"]

\* ------------------------------------------------------------- the index
\* index.offsets of a dataset of n examples: n + 1 offsets from 0 to
\* MaxOffset, none smaller than the one before.  Such an array is given by
\* the position from which it is at least k, for each k from 1 to MaxOffset.
Thresholds(n) == [1..MaxOffset -> 0..(n + 1)]
offsets_of(t, n) == [i \in 0..n |-> Cardinality({k \in 1..MaxOffset : t[k] <= i})]

\* the positions of index.offsets read for a batch: offsets[batch_start_index]
\* and offsets[batch_end_index]
batch_offsets_at(b) == <<b[1], b[2]>>

\* the positions of index.offsets read for an example: offsets[ei] and
\* offsets[ei+1]
example_offsets_past(ei) == <<ei + 1, ei + 2>>
example_offsets_at(ei) == <<ei, ei + 1>>

\* the positions of index.labels read for an example: labels[ei] in training
\* and evaluation, none in prediction
labels_at(kind, ei) == IF kind = "predict" THEN {} ELSE {ei}

\* start_offset and end_offset of an example, relative to its batch
slice(offsets, b, ei) ==
    [start_offset |-> offsets[example_offsets_at(ei)[1]] - offsets[batch_offsets_at(b)[1]],
     end_offset |-> offsets[example_offsets_at(ei)[2]] - offsets[batch_offsets_at(b)[1]]]

\* the length of batch_features: read_batch(file, batch_start_offset,
\* batch_end_offset) returns the features between the two offsets
batch_features_size(offsets, b) ==
    offsets[batch_offsets_at(b)[2]] - offsets[batch_offsets_at(b)[1]]

\* ------------------------------------------------------------- train_on_dataset
TrainBegin ==
    /\ pc = "epoch"
    /\ epoch < cfg.n_epochs
    /\ LET g == generate_batches(ds_train.n_examples, TRUE, rnd)
       IN  /\ batches' = g.v
           /\ rnd' = g.rnd
           /\ claimed' = [i \in 1..Len(g.v) |-> <<>>]
    /\ next_bi' = 0
    /\ pass' = [kind |-> "train", done |-> FALSE,
                n_examples |-> ds_train.n_examples, cnt |-> 0, mask |-> <<>>,
                updates0 |-> totals.updates]
    /\ predict_calls' = [e \in 0..(ds_train.n_examples - 1) |-> 0]
    /\ update_calls' = [e \in 0..(ds_train.n_examples - 1) |-> 0]
    /\ workers' = StartTeam
    /\ pc' = "train"
    /\ UNCHANGED <<dsvars, error, epoch, predictions, out, totals, mask_oob>>

\* a thread takes the next batch: its range, its mini-batches and its features
TrainClaim(w) ==
    /\ pc = "train"
    /\ workers[w].pc = "claim"
    /\ IF dispatch < Len(batches)
       THEN LET bi == dispatch
                b == batches[bi + 1]
                mini_batches == generate_mini_batches(b[1], b[2])
                rec == [workers[w] EXCEPT !.bi = bi, !.batch = b,
                           !.mini_batches = mini_batches, !.si = 2]
            IN  /\ next_bi' = bi + 1
                /\ claimed' = [claimed EXCEPT ![bi + 1] = Append(@, w)]
                /\ totals' = [totals EXCEPT !.reads = @ + 1]
                /\ workers' = [workers EXCEPT ![w] =
                      IF Len(mini_batches) >= 2 THEN [rec EXCEPT !.pc = "shuffle"]
                      ELSE enter_examples(rec)]
       ELSE /\ workers' = [workers EXCEPT ![w].pc = "joined"]
            /\ UNCHANGED <<next_bi, claimed, totals>>
    /\ UNCHANGED <<dsvars, pc, error, epoch, rnd, pass, batches, predict_calls,
                   update_calls, predictions, out, mask_oob>>

\* std::shuffle(mini_batches, rnd), one call of rnd at a time: the thread reads
\* the state of the shared generator ...
TrainShuffleRead(w) ==
    /\ pc = "train"
    /\ workers[w].pc = "shuffle"
    /\ workers' = [workers EXCEPT ![w].pc = "shuffle_write", ![w].r = rnd]
    /\ UNCHANGED <<dsvars, pc, error, epoch, rnd, pass, batches, next_bi, claimed,
                   predict_calls, update_calls, predictions, out, totals, mask_oob>>

\* ... and writes the next state back, using the value drawn for the swap
TrainShuffleWrite(w) ==
    /\ pc = "train"
    /\ workers[w].pc = "shuffle_write"
    /\ LET rec == workers[w]
           x1 == rnd_next(rec.r)
           moved == [rec EXCEPT !.mini_batches = shuffle_step(@, rec.si, x1),
                                !.si = rec.si + 1, !.r = 0]
       IN  /\ rnd' = x1
           /\ workers' = [workers EXCEPT ![w] =
                 IF moved.si > Len(moved.mini_batches) THEN enter_examples(moved)
                 ELSE [moved EXCEPT !.pc = "shuffle"]]
    /\ UNCHANGED <<dsvars, pc, error, epoch, pass, batches, next_bi, claimed,
                   predict_calls, update_calls, predictions, out, totals, mask_oob>>

\* the words fill_mask_rand is asked to fill: (dropout_mask_size + 63) / 64
mask_words(dropout_mask_size) ==
    (dropout_mask_size + (MASK_WORD_BITS - 1)) \div MASK_WORD_BITS

\* float dropout_mult = (1 << dropout_prob_log) / ((1 << dropout_prob_log) - 1.0f)
dropout_mult == Pow2(dropout_prob_log) \div (Pow2(dropout_prob_log) - 1)

\* the threads whose dropout_mask a fill by thread w writes: the array is
\* declared inside the body of the parallel loop, one to an iteration
mask_buffers_shared(w) == Threads
mask_buffers(w) == {w}

\* what fill_mask_rand does when _rdrand64_step does not return 1
on_failed_draw_skip == "skip"
on_failed_draw == "throw"

\* an example's label, offsets and mask: fill_mask_rand(dropout_mask, size, k)
\* clears `size` words of the buffer of dropout_mask_max_size words and ORs k
\* draws into each.  A size past the buffer writes outside it (the process
\* dies there or goes on); a failed draw throws out of the parallel region,
\* which ends the process.
TrainMask(w) ==
    /\ pc = "train"
    /\ workers[w].pc = "mask"
    /\ \E dropout_mask_size \in MaskSizes, drawn \in BOOLEAN, dies \in BOOLEAN :
          LET size == mask_words(dropout_mask_size)
              past == size > dropout_mask_max_size
              failed == ~drawn /\ size * dropout_prob_log > 0
          IN  /\ mask_oob' = (mask_oob \/ past)
              /\ dies => past
              /\ drawn \/ failed
              /\ IF dies
                 THEN /\ pc' = "crashed"
                      /\ UNCHANGED <<error, workers, totals>>
                 ELSE /\ totals' = [totals EXCEPT
                            !.failed_draws = IF failed THEN @ + 1 ELSE @]
                      /\ IF failed /\ on_failed_draw = "throw"
                         THEN /\ pc' = "fatal"
                              /\ error' = ErrRand
                              /\ UNCHANGED workers
                         ELSE /\ LET filled == [filled |-> IF failed THEN "partial"
                                                               ELSE "rand",
                                                    of |-> workers[w].ei]
                                 IN  workers' = [v \in Threads |->
                                        IF v = w
                                        THEN [workers[v] EXCEPT !.pc = "predict",
                                                                !.mask = filled]
                                        ELSE IF v \in mask_buffers(w)
                                        THEN [workers[v] EXCEPT !.mask = filled]
                                        ELSE workers[v]]
                              /\ UNCHANGED <<pc, error>>
    /\ UNCHANGED <<dsvars, epoch, rnd, pass, batches, next_bi, claimed,
                   predict_calls, update_calls, predictions, out>>

\* norm, t = m.predict(...), expnyt
TrainPredict(w) ==
    /\ pc = "train"
    /\ workers[w].pc = "predict"
    /\ predict_calls' = [predict_calls EXCEPT ![workers[w].ei] = @ + 1]
    /\ totals' = [totals EXCEPT !.predicts = @ + 1]
    /\ workers' = [workers EXCEPT ![w].pc = "update",
          ![w].predicted = [ei |-> workers[w].ei, mask |-> workers[w].mask,
                            mult |-> dropout_mult]]
    /\ UNCHANGED <<dsvars, pc, error, epoch, rnd, pass, batches, next_bi, claimed,
                   update_calls, predictions, out, mask_oob>>

\* m.update(...), loss +=, and the step to the next example of the mini-batch
\* order
TrainUpdate(w) ==
    /\ pc = "train"
    /\ workers[w].pc = "update"
    /\ update_calls' = [update_calls EXCEPT ![workers[w].ei] = @ + 1]
    /\ totals' = [totals EXCEPT !.updates = @ + 1]
    /\ LET rec == workers[w]
           at == seek(rec.mini_batches, rec.mb, rec.ei + 1)
           called == [rec EXCEPT !.updated =
                         [ei |-> rec.ei, mask |-> rec.mask, mult |-> dropout_mult]]
       IN  workers' = [workers EXCEPT ![w] =
              IF at.more THEN [called EXCEPT !.pc = "mask", !.mb = at.mb, !.ei = at.ei]
              ELSE [called EXCEPT !.pc = "batch_end"]]
    /\ UNCHANGED <<dsvars, pc, error, epoch, rnd, pass, batches, next_bi, claimed,
                   predict_calls, predictions, out, mask_oob>>

\* cnt += batch_end_index - batch_start_index, on the thread's private uint64_t
\* copy; the batch's locals go out of scope
TrainBatchEnd(w) ==
    /\ pc = "train"
    /\ workers[w].pc = "batch_end"
    /\ workers' = [workers EXCEPT ![w] =
          [IdleWorker EXCEPT !.pc = "claim",
              !.cnt = U64(workers[w].cnt + (workers[w].batch[2] - workers[w].batch[1]))]]
    /\ UNCHANGED <<dsvars, pc, error, epoch, rnd, pass, batches, next_bi, claimed,
                   predict_calls, update_calls, predictions, out, totals, mask_oob>>

\* the end of the parallel region: the reduction, the report, and back in run()
TrainEnd ==
    /\ pc = "train"
    /\ AllJoined
    /\ pass' = [pass EXCEPT !.done = TRUE, !.cnt = U64(reduction)]
    /\ totals' = [totals EXCEPT !.train = @ + 1]
    /\ workers' = [w \in Threads |-> IdleWorker]
    /\ IF cfg.val_file_name = ""
       THEN pc' = "epoch" /\ epoch' = epoch + 1
       ELSE pc' = "evaluate_begin" /\ epoch' = epoch
    /\ UNCHANGED <<dsvars, error, rnd, batches, next_bi, claimed, predict_calls,
                   update_calls, predictions, out, mask_oob>>

\* ------------------------------------------------------------- evaluate_on_dataset
\* fill_mask_ones(mask, size): memset(mask, 0xFF, size * sizeof(uint64_t))
fill_mask_ones_short(mask, size) ==
    [p \in 1..Len(mask) |-> IF p < size THEN Bits ELSE mask[p]]
fill_mask_ones(mask, size) ==
    [p \in 1..Len(mask) |-> IF p <= size THEN Bits ELSE mask[p]]

\* the model calls of one example outside training: t = m.predict(...) and
\* nothing else
score_and_update(t) == [t EXCEPT !.predicts = @ + 1, !.updates = @ + 1]
score(t) == [t EXCEPT !.predicts = @ + 1]

\* the slot of predictions[] an example's probability is stored in
slot_in_batch(ei, batch_start_index) == ei - batch_start_index
slot(ei, batch_start_index) == ei

EvalBegin ==
    /\ pc = "evaluate_begin"
    /\ batches' = generate_batches(ds_val.n_examples, FALSE, rnd).v
    /\ claimed' = [i \in 1..Len(batches') |-> <<>>]
    /\ next_bi' = 0
    /\ \E dropout_mask \in MaskBuffers :
          pass' = [kind |-> "evaluate", done |-> FALSE,
                   n_examples |-> ds_val.n_examples, cnt |-> 0,
                   mask |-> fill_mask_ones(dropout_mask, dropout_mask_max_size),
                   updates0 |-> totals.updates]
    /\ predict_calls' = [e \in 0..(ds_val.n_examples - 1) |-> 0]
    /\ update_calls' = [e \in 0..(ds_val.n_examples - 1) |-> 0]
    /\ predictions' = [e \in 0..(ds_val.n_examples - 1) |-> NoSlot]
    /\ workers' = StartTeam
    /\ pc' = "evaluate"
    /\ UNCHANGED <<dsvars, error, epoch, rnd, out, totals, mask_oob>>

\* a thread takes the next batch (the loop variable bi is a uint32_t)
EvalClaim(w) ==
    /\ pc = "evaluate"
    /\ workers[w].pc = "claim"
    /\ IF dispatch < Len(batches)
       THEN LET bi == U32(dispatch)
                b == batches[bi + 1]
            IN  /\ next_bi' = dispatch + 1
                /\ claimed' = [claimed EXCEPT ![bi + 1] = Append(@, w)]
                /\ totals' = [totals EXCEPT !.reads = @ + 1]
                /\ workers' = [workers EXCEPT ![w].bi = bi, ![w].batch = b,
                      ![w].ei = b[1],
                      ![w].pc = IF b[1] < b[2] THEN "example" ELSE "batch_end"]
       ELSE /\ workers' = [workers EXCEPT ![w].pc = "joined"]
            /\ UNCHANGED <<next_bi, claimed, totals>>
    /\ UNCHANGED <<dsvars, pc, error, epoch, rnd, pass, batches, predict_calls,
                   update_calls, predictions, out, mask_oob>>

\* one example: y, the offsets, norm, t = m.predict(..., dropout_mask, 1), loss
\* and predictions[ei]
EvalExample(w) ==
    /\ pc = "evaluate"
    /\ workers[w].pc = "example"
    /\ LET rec == workers[w]
           ei == rec.ei
           to == slot(ei, rec.batch[1])
       IN  /\ predict_calls' = [predict_calls EXCEPT ![ei] = @ + 1]
           /\ predictions' = [predictions EXCEPT ![to] =
                 [writes |-> @.writes + 1, by |-> w, of |-> ei]]
           /\ workers' = [workers EXCEPT ![w].ei = ei + 1,
                 ![w].predicted = [ei |-> ei, mask |-> pass.mask, mult |-> 1],
                 ![w].pc = IF ei + 1 < rec.batch[2] THEN "example" ELSE "batch_end"]
    /\ totals' = score(totals)
    /\ UNCHANGED <<dsvars, pc, error, epoch, rnd, pass, batches, next_bi, claimed,
                   update_calls, out, mask_oob>>

\* cnt += batch_end_index - batch_start_index, on the thread's private uint32_t
\* copy
EvalBatchEnd(w) ==
    /\ pc = "evaluate"
    /\ workers[w].pc = "batch_end"
    /\ workers' = [workers EXCEPT ![w] =
          [IdleWorker EXCEPT !.pc = "claim",
              !.cnt = U32(workers[w].cnt + (workers[w].batch[2] - workers[w].batch[1]))]]
    /\ UNCHANGED <<dsvars, pc, error, epoch, rnd, pass, batches, next_bi, claimed,
                   predict_calls, update_calls, predictions, out, totals, mask_oob>>

\* the end of the parallel region: the reduction into the uint32_t cnt, the
\* report, and the next epoch of run()
EvalEnd ==
    /\ pc = "evaluate"
    /\ AllJoined
    /\ pass' = [pass EXCEPT !.done = TRUE, !.cnt = U32(reduction)]
    /\ totals' = [totals EXCEPT !.evaluate = @ + 1]
    /\ workers' = [w \in Threads |-> IdleWorker]
    /\ pc' = "epoch"
    /\ epoch' = epoch + 1
    /\ UNCHANGED <<dsvars, error, rnd, batches, next_bi, claimed, predict_calls,
                   update_calls, predictions, out, mask_oob>>

\* ------------------------------------------------------------- run(): after the epochs
\* if (!test_file_name.empty() && !pred_file_name.empty())
wants_prediction_either == cfg.test_file_name # "" \/ cfg.pred_file_name # ""
wants_prediction == cfg.test_file_name # "" /\ cfg.pred_file_name # ""

EpochsDone ==
    /\ pc = "epoch"
    /\ ~(epoch < cfg.n_epochs)
    /\ pc' = IF wants_prediction THEN "load_test" ELSE "done"
    /\ UNCHANGED <<dsvars, error, epoch, rnd, pass, batches, next_bi, claimed,
                   predict_calls, update_calls, predictions, out, workers, totals,
                   mask_oob>>

\* the test index is loaded and its n_index_bits compared
LoadTest ==
    /\ pc = "load_test"
    /\ \E n \in ExampleCounts, bits \in IndexBits :
          /\ ds_test' = read_index(n, bits)
          /\ IF ds_test'.n_index_bits # ds_train.n_index_bits
             THEN pc' = "fatal" /\ error' = ErrTest
             ELSE pc' = "predict_begin" /\ error' = error
    /\ UNCHANGED <<plan, cfg, ds_train, ds_val, epoch, rnd, pass, batches, next_bi,
                   claimed, predict_calls, update_calls, predictions, out, workers,
                   totals, mask_oob>>

\* ------------------------------------------------------------- predict_on_dataset
\* the thread that runs run(), and with it predict_on_dataset
Main == 1

\* ofstream out(pred_file_name), and predict_on_dataset up to its loop
PredictBegin ==
    /\ pc = "predict_begin"
    /\ out' = [created |-> TRUE, lines |-> <<>>]
    /\ batches' = generate_batches(ds_test.n_examples, FALSE, rnd).v
    /\ claimed' = [i \in 1..Len(batches') |-> <<>>]
    /\ next_bi' = 0
    /\ \E dropout_mask \in MaskBuffers :
          pass' = [kind |-> "predict", done |-> FALSE,
                   n_examples |-> ds_test.n_examples, cnt |-> 0,
                   mask |-> fill_mask_ones(dropout_mask, dropout_mask_max_size),
                   updates0 |-> totals.updates]
    /\ predict_calls' = [e \in 0..(ds_test.n_examples - 1) |-> 0]
    /\ update_calls' = [e \in 0..(ds_test.n_examples - 1) |-> 0]
    /\ workers' = [workers EXCEPT ![Main] = [IdleWorker EXCEPT !.pc = "claim"]]
    /\ pc' = "predict"
    /\ UNCHANGED <<dsvars, error, epoch, rnd, predictions, totals, mask_oob>>

\* the head of the batch loop: for (uint64_t bi = 0; bi < batches.size(); ++ bi)
PredictClaim ==
    /\ pc = "predict"
    /\ workers[Main].pc = "claim"
    /\ IF next_bi < Len(batches)
       THEN LET b == batches[next_bi + 1]
            IN  /\ next_bi' = next_bi + 1
                /\ claimed' = [claimed EXCEPT ![next_bi + 1] = Append(@, Main)]
                /\ totals' = [totals EXCEPT !.reads = @ + 1]
                /\ workers' = [workers EXCEPT ![Main].bi = next_bi, ![Main].batch = b,
                      ![Main].ei = b[1],
                      ![Main].pc = IF b[1] < b[2] THEN "example" ELSE "batch_end"]
       ELSE /\ workers' = [workers EXCEPT ![Main].pc = "joined"]
            /\ UNCHANGED <<next_bi, claimed, totals>>
    /\ UNCHANGED <<dsvars, pc, error, epoch, rnd, pass, batches, predict_calls,
                   update_calls, predictions, out, mask_oob>>

\* the line an example adds to the output: out << 1/(1+exp(-t)) << std::endl
line_of_batch(ei, rec) == [of |-> rec.batch[1], by |-> Main]
line(ei, rec) == [of |-> ei, by |-> Main]

\* one example: the offsets, norm, t = m.predict(..., dropout_mask, 1) and its
\* line
PredictExample ==
    /\ pc = "predict"
    /\ workers[Main].pc = "example"
    /\ LET rec == workers[Main]
           ei == rec.ei
       IN  /\ predict_calls' = [predict_calls EXCEPT ![ei] = @ + 1]
           /\ out' = [out EXCEPT !.lines = Append(@, line(ei, rec))]
           /\ workers' = [workers EXCEPT ![Main].ei = ei + 1,
                 ![Main].predicted = [ei |-> ei, mask |-> pass.mask, mult |-> 1],
                 ![Main].pc = IF ei + 1 < rec.batch[2] THEN "example" ELSE "batch_end"]
    /\ totals' = score(totals)
    /\ UNCHANGED <<dsvars, pc, error, epoch, rnd, pass, batches, next_bi, claimed,
                   update_calls, predictions, mask_oob>>

\* cnt += batch_end_index - batch_start_index, on the uint64_t cnt
PredictBatchEnd ==
    /\ pc = "predict"
    /\ workers[Main].pc = "batch_end"
    /\ workers' = [workers EXCEPT ![Main] =
          [IdleWorker EXCEPT !.pc = "claim",
              !.cnt = U64(workers[Main].cnt
                            + (workers[Main].batch[2] - workers[Main].batch[1]))]]
    /\ UNCHANGED <<dsvars, pc, error, epoch, rnd, pass, batches, next_bi, claimed,
                   predict_calls, update_calls, predictions, out, totals, mask_oob>>

\* the report, the return of predict_on_dataset, and return 0
PredictEnd ==
    /\ pc = "predict"
    /\ workers[Main].pc = "joined"
    /\ pass' = [pass EXCEPT !.done = TRUE, !.cnt = workers[Main].cnt]
    /\ totals' = [totals EXCEPT !.predict = @ + 1]
    /\ workers' = [w \in Threads |-> IdleWorker]
    /\ pc' = "done"
    /\ UNCHANGED <<dsvars, error, epoch, rnd, batches, next_bi, claimed,
                   predict_calls, update_calls, predictions, out, mask_oob>>

\* ------------------------------------------------------------- the run
Next ==
    \/ Start
    \/ LoadVal
    \/ TrainBegin
    \/ \E w \in Team : TrainClaim(w)
    \/ \E w \in Team : TrainShuffleRead(w)
    \/ \E w \in Team : TrainShuffleWrite(w)
    \/ \E w \in Team : TrainMask(w)
    \/ \E w \in Team : TrainPredict(w)
    \/ \E w \in Team : TrainUpdate(w)
    \/ \E w \in Team : TrainBatchEnd(w)
    \/ TrainEnd
    \/ EvalBegin
    \/ \E w \in Team : EvalClaim(w)
    \/ \E w \in Team : EvalExample(w)
    \/ \E w \in Team : EvalBatchEnd(w)
    \/ EvalEnd
    \/ EpochsDone
    \/ LoadTest
    \/ PredictBegin
    \/ PredictClaim
    \/ PredictExample
    \/ PredictBatchEnd
    \/ PredictEnd

Spec == Init /\ [][Next]_vars

\* the run under a scheduler that keeps running the process: while some
\* thread has a step to take, a step is taken
FairSpec == Spec /\ WF_vars(Next)

\* the run's variables, which the planner calls leave alone
RunIdle ==
    /\ cfg = [n_threads |-> 1, n_epochs |-> 0, seed |-> 0, val_file_name |-> "",
              test_file_name |-> "", pred_file_name |-> ""]
    /\ pc = "start"
    /\ error = ""
    /\ ds_train = NoDataset
    /\ ds_val = NoDataset
    /\ ds_test = NoDataset
    /\ epoch = 0
    /\ rnd = RndInitial
    /\ pass = NoPass
    /\ batches = <<>>
    /\ next_bi = 0
    /\ claimed = <<>>
    /\ predict_calls = <<>>
    /\ update_calls = <<>>
    /\ predictions = <<>>
    /\ out = [created |-> FALSE, lines |-> <<>>]
    /\ workers = [w \in Threads |-> IdleWorker]
    /\ totals = [reads |-> 0, predicts |-> 0, updates |-> 0,
                 train |-> 0, evaluate |-> 0, predict |-> 0,
                 failed_draws |-> 0]
    /\ mask_oob = FALSE

runvars == <<cfg, pc, error, ds_train, ds_val, ds_test, epoch, rnd, pass,
             batches, next_bi, claimed, predict_calls, update_calls, predictions,
             out, workers, totals, mask_oob>>

PlannerInputs ==
    \/ \E n \in 0..MaxPlanExamples, s \in BOOLEAN, x \in 1..(RndMod - 1) :
          plan = [fn |-> "generate_batches", n_examples |-> n, shuffle |-> s,
                  rnd |-> x, returned |-> FALSE, result |-> <<>>]
    \/ \E b \in 0..MaxPlanExamples, e \in 0..MaxPlanExamples :
          /\ b <= e
          /\ plan = [fn |-> "generate_mini_batches", begin |-> b, end |-> e,
                     returned |-> FALSE, result |-> <<>>]

PlannerInit ==
    /\ RunIdle
    /\ PlannerInputs

PlanBatches ==
    /\ plan.fn = "generate_batches"
    /\ ~plan.returned
    /\ plan' = [plan EXCEPT !.returned = TRUE,
                  !.result = generate_batches(plan.n_examples, plan.shuffle, plan.rnd).v]
    /\ UNCHANGED runvars

PlanMiniBatches ==
    /\ plan.fn = "generate_mini_batches"
    /\ ~plan.returned
    /\ plan' = [plan EXCEPT !.returned = TRUE,
                  !.result = generate_mini_batches(plan.begin, plan.end)]
    /\ UNCHANGED runvars

PlannerNext == PlanBatches \/ PlanMiniBatches

PlannerSpec == PlannerInit /\ [][PlannerNext]_vars

\* ------------------------------------------------------------- fill_mask_rand
\* what _rdrand64_step(&v) yields: 1 and a word in v, or not 1
HwDraws == [ok : {TRUE}, v : Words] \cup {[ok |-> FALSE, v |-> {}]}

\* memset(mask, 0, size * sizeof(uint64_t))
clear_nothing(mask, size) == mask
clear(mask, size) == [p \in 1..Len(mask) |-> IF p <= size THEN {} ELSE mask[p]]

\* the loops over p and i, `used` draws of hw taken so far; mask[p] |= v is
\* the union of the bit sets
RECURSIVE fill_loop(_, _, _, _, _, _, _)
fill_loop(mask, size, zero_prob_log, p, i, hw, used) ==
    IF ~(p < size) THEN [mask |-> mask, used |-> used, threw |-> FALSE]
    ELSE IF ~(i < zero_prob_log)
    THEN fill_loop(mask, size, zero_prob_log, p + 1, 0, hw, used)
    ELSE LET d == hw[used + 1]
         IN  IF ~d.ok THEN [mask |-> mask, used |-> used + 1, threw |-> TRUE]
             ELSE fill_loop([mask EXCEPT ![p + 1] = @ \cup d.v], size,
                            zero_prob_log, p, i + 1, hw, used + 1)

\* fill_mask_rand(mask, size, zero_prob_log) on a hardware that yields hw
fill_mask_rand(mask, size, zero_prob_log, hw) ==
    fill_loop(clear(mask, size), size, zero_prob_log, 0, 0, hw, 0)

\* a call of fill_mask_rand on its own: a buffer with any content, a size
\* within the buffer, and the draws the hardware will yield
MaskInputs ==
    \E mask \in MaskBuffers, size \in 0..dropout_mask_max_size,
       k \in 0..MaxZeroProbLog,
       hw \in [1..(dropout_mask_max_size * MaxZeroProbLog) -> HwDraws] :
          plan = [fn |-> "fill_mask_rand", mask |-> mask, size |-> size,
                  zero_prob_log |-> k, hw |-> hw, returned |-> FALSE,
                  result |-> [mask |-> mask, used |-> 0, threw |-> FALSE]]

MaskInit ==
    /\ RunIdle
    /\ MaskInputs

FillMask ==
    /\ plan.fn = "fill_mask_rand"
    /\ ~plan.returned
    /\ plan' = [plan EXCEPT !.returned = TRUE,
                  !.result = fill_mask_rand(plan.mask, plan.size,
                                            plan.zero_prob_log, plan.hw)]
    /\ UNCHANGED runvars

MaskNext == FillMask

MaskSpec == MaskInit /\ [][MaskNext]_vars

\* ------------------------------------------------------------- claims
Size(r) == r[2] - r[1]
Ordinals(r) == r[1]..(r[2] - 1)
\* the ranges of a sequence of ranges are non-empty, pairwise disjoint and
\* cover exactly [lo, hi)
Partitions(b, lo, hi) ==
    /\ \A i \in 1..Len(b) : b[i][1] < b[i][2]
    /\ \A i, j \in 1..Len(b) : i # j => Ordinals(b[i]) \cap Ordinals(b[j]) = {}
    /\ UNION {Ordinals(b[i]) : i \in 1..Len(b)} = lo..(hi - 1)
\* each range holds at most cap ordinals, at most one holds fewer, and that
\* one ends at hi
Capped(b, cap, hi) ==
    /\ \A i \in 1..Len(b) : Size(b[i]) <= cap
    /\ Cardinality({i \in 1..Len(b) : Size(b[i]) < cap}) <= 1
    /\ \A i \in 1..Len(b) : Size(b[i]) < cap => b[i][2] = hi
\* the ranges are in ascending order, each starting where the last ended
Ascending(b, lo) ==
    /\ Len(b) > 0 => b[1][1] = lo
    /\ \A i \in 1..(Len(b) - 1) : b[i][2] = b[i + 1][1]
\* the number of ranges of capacity cap that [lo, hi) splits into
Count(lo, hi, cap) == (hi - lo + cap - 1) \div cap

\* C1: for every n_examples, generate_batches returns non-empty, pairwise
\* non-overlapping ranges that cover exactly [0, n_examples), each of at most
\* batch_size ordinals, at most one shorter and that one ending at n_examples;
\* unshuffled they are ascending and contiguous, shuffled they are a
\* permutation of the unshuffled sequence (the same ranges, each once).
C1_BatchesPartition ==
    (plan.fn = "generate_batches" /\ plan.returned) =>
        LET b == plan.result
            n == plan.n_examples
        IN  /\ Partitions(b, 0, n)
            /\ Capped(b, batch_size, n)
            /\ Len(b) = Count(0, n, batch_size)
            /\ ~plan.shuffle => Ascending(b, 0)
            /\ plan.shuffle =>
                  {b[i] : i \in 1..Len(b)} =
                  {<<k * batch_size, min((k + 1) * batch_size, n)>> :
                      k \in 0..(Count(0, n, batch_size) - 1)}

\* a shuffled plan of three batches, the short one not last
C1_Witness ==
    /\ plan.fn = "generate_batches"
    /\ plan.returned
    /\ plan.shuffle
    /\ Len(plan.result) = 3
    /\ Size(plan.result[1]) < batch_size
    /\ plan.result[3][1] = 0

\* C2: for every begin <= end, generate_mini_batches returns ascending,
\* contiguous, non-overlapping ranges that cover exactly [begin, end), each of
\* at most mini_batch_size ordinals, only the last possibly shorter; for
\* begin = end the result is empty.
C2_MiniBatchesPartition ==
    (plan.fn = "generate_mini_batches" /\ plan.returned) =>
        LET b == plan.result
        IN  /\ Partitions(b, plan.begin, plan.end)
            /\ Ascending(b, plan.begin)
            /\ \A i \in 1..Len(b) : Size(b[i]) <= mini_batch_size
            /\ \A i \in 1..(Len(b) - 1) : Size(b[i]) = mini_batch_size
            /\ plan.begin = plan.end => b = <<>>

\* a sub-range not starting at 0 that splits into several mini-batches, the
\* last one short
C2_Witness ==
    /\ plan.fn = "generate_mini_batches"
    /\ plan.returned
    /\ plan.begin > 0
    /\ Len(plan.result) >= 3
    /\ Size(plan.result[Len(plan.result)]) < mini_batch_size

\* ------------------------------------------------------------- claims about the passes
Examples == 0..(pass.n_examples - 1)
BothNames == cfg.test_file_name # "" /\ cfg.pred_file_name # ""
\* the batches of the pass that hold example e
BatchesOf(e) == {i \in 1..Len(batches) : e \in Ordinals(batches[i])}

\* C3: at the end of every training, evaluation and prediction pass the
\* reported cnt (the reduction of the threads' partial counts) equals the
\* dataset's n_examples.
C3_CntEqualsExamples ==
    pass.done => pass.cnt = pass.n_examples

\* what the code keeps of C3: the uint64_t cnt of training and prediction is
\* n_examples, the uint32_t cnt of evaluation is n_examples modulo 2^32
CntUpToWidth ==
    pass.done =>
        IF pass.kind = "evaluate" THEN pass.cnt = U32(pass.n_examples)
        ELSE pass.cnt = pass.n_examples

\* C4: in a training pass every batch is handed to exactly one worker, and
\* every example of [0, n_examples) gets exactly one predict call followed by
\* exactly one update call: never more than one of each, never an update before
\* its predict, each by the worker that holds the example's batch, and all of
\* them once the pass has ended.
C4_EachExampleOnce ==
    pass.kind = "train" =>
        /\ DOMAIN predict_calls = Examples
        /\ DOMAIN update_calls = Examples
        /\ \A i \in 1..Len(batches) : Len(claimed[i]) <= 1
        /\ \A e \in Examples :
              /\ predict_calls[e] <= 1
              /\ update_calls[e] <= predict_calls[e]
        /\ \A w \in Threads :
              workers[w].pc \in {"mask", "predict", "update"} =>
                 /\ workers[w].ei \in Ordinals(workers[w].batch)
                 /\ batches[workers[w].bi + 1] = workers[w].batch
                 /\ claimed[workers[w].bi + 1] = <<w>>
                 /\ predict_calls[workers[w].ei] =
                       (IF workers[w].pc = "update" THEN 1 ELSE 0)
                 /\ update_calls[workers[w].ei] = 0
        /\ pass.done =>
              /\ \A i \in 1..Len(batches) : Len(claimed[i]) = 1
              /\ \A e \in Examples : predict_calls[e] = 1 /\ update_calls[e] = 1

\* a finished training pass of two full batches, shuffled, one batch per worker
C4_Witness ==
    /\ pass.kind = "train"
    /\ pass.done
    /\ pass.n_examples = 2 * batch_size
    /\ batches[1][1] # 0
    /\ claimed[1] # claimed[2]
    /\ \A e \in Examples : update_calls[e] = 1

\* C5: in an evaluation pass predictions has exactly n_examples slots; slot ei
\* is written at most once during the pass and exactly once by its end, by the
\* worker that holds the batch of ei, with the probability of example ei.
C5_EachSlotOnce ==
    pass.kind = "evaluate" =>
        /\ DOMAIN predictions = Examples
        /\ \A e \in Examples :
              /\ predictions[e].writes <= 1
              /\ predictions[e].writes = 1 =>
                    /\ predictions[e].of = e
                    /\ \E i \in BatchesOf(e) : claimed[i] = <<predictions[e].by>>
              /\ pass.done => predictions[e].writes = 1

\* a finished evaluation pass whose slots were written by two workers
C5_Witness ==
    /\ pass.kind = "evaluate"
    /\ pass.done
    /\ pass.n_examples > batch_size
    /\ \E e, f \in Examples : predictions[e].by # predictions[f].by
    /\ \A e \in Examples : predictions[e].writes = 1

\* C6: when the validation file's n_index_bits differs from the training
\* file's, run() has failed with the mismatch error, and no batch has been
\* read, no predict or update call made, no pass begun and no output file
\* created.
C6_ValMismatchAbortsFirst ==
    ((ds_val.loaded /\ ds_val.n_index_bits # ds_train.n_index_bits) \/ error = ErrVal) =>
        /\ pc = "fatal"
        /\ error = ErrVal
        /\ totals.reads = 0
        /\ totals.predicts = 0
        /\ totals.updates = 0
        /\ pass = NoPass
        /\ ~ds_test.loaded
        /\ ~out.created

\* the run has failed on the validation file, with epochs and a prediction asked for
C6_Witness ==
    /\ error = ErrVal
    /\ ds_val.n_index_bits = 18
    /\ ds_train.n_index_bits = 20
    /\ cfg.n_epochs > 0
    /\ BothNames

\* C7: when the run fails on the test file's n_index_bits, no training pass
\* has been executed and no update call made.
C7_TestMismatchBeforeTraining ==
    error = ErrTest => (totals.train = 0 /\ totals.updates = 0)

\* C8: run() loads the test dataset, creates the output file and runs a
\* prediction pass if and only if both the test file name and the prediction
\* path are non-empty; otherwise, once the epochs are over, its next step is
\* the normal return.
C8_Inv ==
    /\ (ds_test.loaded \/ out.created \/ totals.predict > 0 \/ pass.kind = "predict"
          \/ pc \in {"load_test", "predict_begin", "predict"}) => BothNames
    /\ pc = "done" =>
          IF BothNames
          THEN ds_test.loaded /\ out.created /\ totals.predict = 1
                  /\ pass.kind = "predict" /\ pass.done
          ELSE ~ds_test.loaded /\ ~out.created /\ totals.predict = 0
C8_Step ==
    (pc = "epoch" /\ ~(epoch < cfg.n_epochs) /\ ~BothNames) => pc' = "done"
C8_PredictionIffBoth == []C8_Inv /\ [][C8_Step]_vars

\* a run given a test file and no prediction path has trained and returned
C8_Witness ==
    /\ pc = "done"
    /\ cfg.test_file_name # ""
    /\ cfg.pred_file_name = ""
    /\ totals.train > 0
    /\ totals.updates > 0

\* C9: a prediction pass runs on the one thread of run(); line i of the
\* output is the probability of example i - 1 (1-based lines, 0-based
\* ordinals), and a finished pass has written exactly n_examples lines.
C9_PredictionLinesInOrder ==
    pass.kind = "predict" =>
        /\ \A i \in 1..Len(out.lines) :
              out.lines[i].of = i - 1 /\ out.lines[i].by = Main
        /\ Len(out.lines) <= pass.n_examples
        /\ pass.done => Len(out.lines) = pass.n_examples
        /\ \A w \in Threads \ {Main} : workers[w] = IdleWorker
        /\ \A i \in 1..Len(batches) : claimed[i] \in {<<>>, <<Main>>}

\* a finished prediction pass over two batches, in a run of two threads
C9_Witness ==
    /\ pass.kind = "predict"
    /\ pass.done
    /\ cfg.n_threads = 2
    /\ Len(batches) = 2
    /\ Len(out.lines) = 2 * batch_size

\* C10: in training no mask word at an index >= dropout_mask_max_size is ever
\* written: a mask that needs more words stops the run before the write.
C10_MaskWithinCapacity ==
    ~mask_oob

\* the worker inside fill_mask_rand for an example no model call has seen yet
MaskingUntouched(w) ==
    /\ workers[w].pc = "mask"
    /\ predict_calls[workers[w].ei] = 0
    /\ update_calls[workers[w].ei] = 0

C11_Inv ==
    /\ totals.failed_draws > 0 =>
          /\ totals.failed_draws = 1
          /\ pc = "fatal"
          /\ error = ErrRand
          /\ pass.kind = "train"
          /\ ~pass.done
          /\ totals.train = epoch
          /\ totals.predict = 0
          /\ ~out.created
          /\ \E w \in Team : MaskingUntouched(w)
    /\ error = ErrRand => totals.failed_draws = 1
    /\ pc = "done" => totals.failed_draws = 0 /\ error = ""
    /\ \A w \in Threads : workers[w].mask.filled # "partial"

C11_Step == pc = "fatal" => UNCHANGED vars

\* C11: a hardware draw that fails in fill_mask_rand ends the run at once with
\* the fatal error "Error generating random number!": the draw is not retried
\* and no other mask is used instead, the example whose mask was being filled
\* gets no predict or update call, and the run takes no further step: the pass
\* is not reported, no later epoch and no prediction pass start, and the run
\* never ends normally.
C11_FailedDrawIsFatal == []C11_Inv /\ [][C11_Step]_vars

C11_Witness ==
    /\ totals.failed_draws = 1
    /\ pc = "fatal"
    /\ cfg.n_threads = 2
    /\ cfg.n_epochs = 2
    /\ epoch = 1
    /\ BothNames
    /\ \E w \in Team : MaskingUntouched(w)
    /\ \E v \in Team : workers[v].pc = "update"

C12_Inv ==
    pass.kind \in {"evaluate", "predict"} =>
        /\ totals.updates = pass.updates0
        /\ \A e \in Examples : update_calls[e] = 0

C12_Step ==
    totals.updates' # totals.updates =>
        /\ pc = "train"
        /\ pass.kind = "train"
        /\ ~pass.done
        /\ totals.updates' = totals.updates + 1
        /\ \E w \in Team : workers[w].pc = "update" /\ workers'[w].pc # "update"

\* C12: evaluation and prediction leave the model as it is: no update call is
\* made for any example of such a pass, the number of updates applied to the
\* model is at every point of the pass what it was when the pass began, and
\* an update is only ever applied by a worker of a running training pass.
C12_ModelReadOnlyOutsideTraining == []C12_Inv /\ [][C12_Step]_vars

C12_Witness ==
    /\ pass.kind = "predict"
    /\ pass.done
    /\ pass.n_examples > batch_size
    /\ pass.updates0 > 0
    /\ totals.evaluate = 2
    /\ totals.predicts > totals.updates + pass.n_examples

\* the generator after the mini-batch shuffles of the first k batches of v,
\* made one after the other in the order of v
RECURSIVE MiniRnd(_, _, _)
MiniRnd(v, k, x) ==
    IF k = 0 THEN x
    ELSE shuffle(generate_mini_batches(v[k][1], v[k][2]), MiniRnd(v, k - 1, x)).rnd

\* the generator at the head of epoch e of a run seeded with `seed` over n
\* training examples, when every shuffle is made one after the other
RECURSIVE EpochRnd(_, _, _)
EpochRnd(n, e, seed) ==
    IF e = 0 THEN rnd_seed(seed)
    ELSE LET g == generate_batches(n, TRUE, EpochRnd(n, e - 1, seed))
         IN  MiniRnd(g.v, Len(g.v), g.rnd)

\* C13: with a single worker the orderings are a function of the seed, the
\* training set and the position in the run, so that two runs with the same
\* seed, datasets and epochs shuffle alike: the generator starts every epoch
\* in the state the seed and the earlier epochs determine, the batch order of
\* the epoch and the mini-batch order of every batch are the ones drawn from
\* it in turn, and nothing but these shuffles advances it.
C13_SingleWorkerOrderingsDetermined ==
    (cfg.n_threads = 1 /\ ds_train.loaded /\ pc \notin {"fatal", "crashed"}) =>
        LET n == ds_train.n_examples
            x0 == EpochRnd(n, totals.train, cfg.seed)
            g == generate_batches(n, TRUE, x0)
            rec == workers[1]
        IN  IF pc # "train" THEN rnd = x0
            ELSE /\ batches = g.v
                 /\ rec.pc \in {"claim", "joined"} => rnd = MiniRnd(g.v, next_bi, g.rnd)
                 /\ rec.pc \in {"mask", "predict", "update", "batch_end"} =>
                       /\ rnd = MiniRnd(g.v, rec.bi + 1, g.rnd)
                       /\ rec.mini_batches =
                             shuffle(generate_mini_batches(rec.batch[1], rec.batch[2]),
                                     MiniRnd(g.v, rec.bi, g.rnd)).v

C13_Witness ==
    /\ cfg.n_threads = 1
    /\ pc = "train"
    /\ totals.train = 1
    /\ workers[1].pc = "update"
    /\ workers[1].bi = 1
    /\ Len(workers[1].mini_batches) = 2
    /\ workers[1].mini_batches #
          generate_mini_batches(workers[1].batch[1], workers[1].batch[2])
    /\ batches # generate_batches(ds_train.n_examples, FALSE, rnd).v

\* a buffer of dropout_mask_max_size words with every bit set
AllOnes == [p \in 1..dropout_mask_max_size |-> Bits]

Scoring == pass.kind \in {"evaluate", "predict"}

C14_Inv ==
    Scoring =>
        /\ pass.mask = AllOnes
        /\ \A w \in Threads : workers[w].predicted.ei >= 0 =>
              /\ workers[w].predicted.mask = AllOnes
              /\ workers[w].predicted.mult = 1

C14_Step ==
    (Scoring /\ pass'.mask # pass.mask) =>
        /\ pass.done
        /\ pc \in {"epoch", "evaluate_begin", "predict_begin"}

\* C14: in evaluation and in prediction every predict call is handed a mask
\* of dropout_mask_max_size words with every bit set and the multiplier 1; the
\* mask is filled before the batch loop and not written again while the pass
\* runs.
C14_ScoringMaskAllOnes == []C14_Inv /\ [][C14_Step]_vars

C14_Witness ==
    /\ pass.kind = "evaluate"
    /\ cfg.n_threads = 2
    /\ \A w \in Team : workers[w].pc = "example" /\ workers[w].predicted.ei >= 0
    /\ workers[1].predicted.mask = AllOnes
    /\ workers[2].predicted.mult = 1

\* the run is over: it returned 0, it threw, or the process died
Ended == pc \in {"done", "fatal", "crashed"}

\* every batch of the pass in hand has been handed out, once
AllBatchesTaken ==
    /\ next_bi = Len(batches)
    /\ \A i \in 1..Len(batches) : Len(claimed[i]) = 1

C15_Inv ==
    /\ pc = "done" =>
          /\ error = ""
          /\ epoch = cfg.n_epochs
          /\ totals.train = cfg.n_epochs
          /\ totals.evaluate = IF cfg.val_file_name = "" THEN 0 ELSE cfg.n_epochs
          /\ totals.predict = IF BothNames THEN 1 ELSE 0
          /\ pass.kind # "none" => pass.done
          /\ \A w \in Threads : workers[w].pc = "idle"
    /\ pc = "fatal" => error # ""
    /\ pass.done =>
          /\ AllBatchesTaken
          /\ \A e \in Examples : predict_calls[e] >= 1
          /\ \A w \in Threads : workers[w].pc = "idle"
    /\ Ended \/ ENABLED Next

\* the record of a running pass changes only by the pass finishing
C15_Step ==
    (pass' # pass /\ pass.kind # "none" /\ ~pass.done) =>
        pass' = [pass EXCEPT !.done = TRUE, !.cnt = pass'.cnt]

\* C15: under a fair scheduler every run ends, either by returning normally
\* or by a fatal failure; a run that returns normally has made exactly
\* n_epochs training passes, one evaluation pass after each when a validation
\* file is given, and the prediction pass when asked for; a pass that is
\* finished has handed out every batch and scored every example; no thread
\* is left waiting and no pass is dropped before it is finished.
C15_EveryRunEnds == <>Ended /\ []C15_Inv /\ [][C15_Step]_vars

C15_Witness ==
    /\ pc = "done"
    /\ cfg.n_threads = 2
    /\ cfg.n_epochs = 2
    /\ totals.train = 2
    /\ totals.evaluate = 2
    /\ totals.predict = 1
    /\ ds_train.n_examples = 2 * batch_size
    /\ pass.n_examples > batch_size

\* where a thread is inside the example loop of a training batch, and inside
\* that of an evaluation or prediction batch
InTraining(w) == workers[w].pc \in {"shuffle", "shuffle_write", "mask", "predict",
                                     "update"}
InScoring(w) == workers[w].pc = "example"

Evaluations(e) == IF cfg.val_file_name = "" THEN 0 ELSE e

C16_Inv ==
    /\ \A w \in Threads : InTraining(w) => pass.kind = "train" /\ ~pass.done
    /\ \A w \in Threads : InScoring(w) => Scoring /\ ~pass.done
    /\ \A w, v \in Threads : ~(InTraining(w) /\ InScoring(v))
    /\ (pass.kind = "train" /\ ~pass.done) =>
          /\ totals.train = epoch
          /\ totals.evaluate = Evaluations(epoch)
          /\ totals.predict = 0
    /\ (pass.kind = "evaluate" /\ ~pass.done) =>
          /\ totals.train = epoch + 1
          /\ totals.evaluate = epoch
          /\ totals.predict = 0
    /\ pass.kind = "predict" =>
          /\ epoch = cfg.n_epochs
          /\ totals.train = cfg.n_epochs
          /\ totals.evaluate = Evaluations(cfg.n_epochs)

C16_Step ==
    /\ (pass'.done /\ ~pass.done) =>
          \A w \in (IF pass.kind = "predict" THEN {Main} ELSE Team) :
             workers[w].pc = "joined"
    /\ (pass' # pass /\ ~pass'.done) =>
          /\ pass.kind = "none" \/ pass.done
          /\ \A w \in Threads : workers[w].pc = "idle"
          /\ pass'.kind = "evaluate" => pass.kind = "train"
          /\ pass'.kind = "train" =>
                pass.kind = (IF epoch = 0 THEN "none"
                             ELSE IF cfg.val_file_name = "" THEN "train"
                             ELSE "evaluate")
    /\ update_calls' # update_calls =>
          \/ pass'.kind = "train" /\ pc = "train"
          \/ pass' # pass

\* C16: the passes follow one another: a pass ends only when every thread of
\* its team has left the batch loop, a pass begins only when the one before
\* has ended and no thread is in a batch, evaluation of an epoch follows the
\* training of that epoch, the next training follows it, and prediction comes
\* after the last epoch; so no thread is ever inside a training example
\* while a thread is inside an example of evaluation or prediction.
C16_PassesInSequence == []C16_Inv /\ [][C16_Step]_vars

C16_Witness ==
    /\ pass.kind = "evaluate"
    /\ ~pass.done
    /\ epoch = 1
    /\ cfg.n_threads = 2
    /\ totals.train = 2
    /\ totals.evaluate = 1
    /\ \A w \in Team : InScoring(w)

\* the draws made for word p (from 1) of a call that made k draws a word
DrawsOf(hw, p, k) == {hw[(p - 1) * k + j].v : j \in 1..k}

C17_Call == plan.fn = "fill_mask_rand" /\ plan.returned /\ ~plan.result.threw

\* C17: a call fill_mask_rand(mask, size, k) that returns leaves each of the
\* first `size` words the bitwise OR of the k draws made for it and of
\* nothing the buffer held before, so that a bit is 0 exactly when it is 0 in
\* all k draws of its word; it takes size * k draws from the hardware and
\* leaves the words from `size` on as they were.
C17_MaskIsOrOfDraws ==
    C17_Call =>
        LET k == plan.zero_prob_log
            new == plan.result.mask
        IN  /\ plan.result.used = plan.size * k
            /\ Len(new) = Len(plan.mask)
            /\ \A p \in 1..plan.size :
                  /\ new[p] = UNION DrawsOf(plan.hw, p, k)
                  /\ \A b \in Bits :
                        b \notin new[p] <=> \A v \in DrawsOf(plan.hw, p, k) : b \notin v
            /\ \A p \in (plan.size + 1)..Len(new) : new[p] = plan.mask[p]

C17_Witness ==
    /\ C17_Call
    /\ plan.size = dropout_mask_max_size
    /\ plan.zero_prob_log = 2
    /\ plan.mask = AllOnes
    /\ plan.result.mask[1] = {}
    /\ plan.result.mask[2] = {0}
    /\ DrawsOf(plan.hw, 2, 2) = {{}, {0}}

\* the mask fill_mask_rand made for example ei
MaskFor(ei) == [filled |-> "rand", of |-> ei]

C18_Inv ==
    \A w \in Threads :
        LET rec == workers[w]
        IN  /\ rec.pc \in {"predict", "update"} => rec.mask = MaskFor(rec.ei)
            /\ rec.pc = "update" =>
                  rec.predicted = [ei |-> rec.ei, mask |-> MaskFor(rec.ei),
                                   mult |-> dropout_mult]
            /\ (pass.kind = "train" /\ rec.updated.ei >= 0) =>
                  /\ rec.updated.mask = MaskFor(rec.updated.ei)
                  /\ rec.updated.mult = dropout_mult
                  /\ rec.pc \in {"mask", "batch_end"} => rec.updated = rec.predicted

C18_Step ==
    \A w \in Threads :
        workers[w].pc \in {"predict", "update"} => workers'[w].mask = workers[w].mask

\* C18: in training the mask handed to update for an example is the mask
\* that was generated for that example and handed to its predict call, with
\* the same multiplier, and between the generation, the predict call and the
\* update call the thread's mask buffer is not written, by any thread.
C18_TrainMaskPrivate == []C18_Inv /\ [][C18_Step]_vars

C18_Witness ==
    /\ pass.kind = "train"
    /\ cfg.n_threads = 2
    /\ workers[1].pc = "update"
    /\ workers[2].pc = "mask"
    /\ workers[2].updated.ei >= 0
    /\ workers[2].updated = workers[2].predicted
    /\ workers[1].predicted.mask = MaskFor(workers[1].ei)
    /\ workers[1].ei # workers[2].ei

\* the threads inside a call of rnd(): the state read, the next not yet stored
Advancing == {w \in Threads : workers[w].pc = "shuffle_write"}

\* C19: in a training pass the shared generator rnd is consumed as one
\* sequence: at most one thread is inside a call of rnd at a time, and the
\* state a thread has read is still the generator's state when the thread
\* stores the next one, so that no two threads get the same draw and no
\* advance is lost.
C19_RndOneSequence ==
    /\ Cardinality(Advancing) <= 1
    /\ \A w \in Advancing : workers[w].r = rnd

\* a thread that has taken a batch, and one that is at the head of the body
\* of the example loop, where the label and the offsets are read
InBatch(w) == workers[w].pc \notin {"idle", "claim", "joined"}
InExample(w) == workers[w].pc \in {"mask", "example"}

Range(t) == {t[i] : i \in 1..Len(t)}

\* the slice of example ei of batch b lies in the features of the batch, for
\* the offsets given by t
Inside(n, b, ei, t) ==
    LET offsets == offsets_of(t, n)
        at == slice(offsets, b, ei)
    IN  /\ 0 <= at.start_offset
        /\ at.start_offset <= at.end_offset
        /\ at.end_offset <= batch_features_size(offsets, b)

\* the positions a batch and an example may come with
Positions == 0..(2 * batch_size + 2)

\* the (n_examples, batch, example) for which the offsets are read inside the
\* index and the slice lies in the features of the batch, whatever the
\* non-decreasing offsets
SliceInside(n, b, ei) ==
    /\ Range(batch_offsets_at(b)) \subseteq 0..n
    /\ Range(example_offsets_at(ei)) \subseteq 0..n
    /\ \A t \in Thresholds(n) : Inside(n, b, ei, t)

\* (written as the image of the set, so that it is an explicit set)
SlicesInside ==
    {q : q \in {r \in ExampleCounts \X Positions \X Positions \X Positions :
                   SliceInside(r[1], <<r[2], r[3]>>, r[4])}}

\* C20: whatever the n_examples of the dataset of a pass, and whatever its
\* n_examples + 1 non-decreasing offsets, the pass reads index.offsets only
\* at positions 0 .. n_examples and index.labels only at positions
\* 0 .. n_examples - 1, and the slice of every example, taken relative to the
\* start of its batch, starts at or after 0, does not end before it starts
\* and ends within the features read for the batch.
C20_IndexReadsInRange ==
    \A w \in Threads :
        LET rec == workers[w]
            n == pass.n_examples
        IN  /\ InBatch(w) => Range(batch_offsets_at(rec.batch)) \subseteq 0..n
            /\ InExample(w) =>
                  /\ Range(example_offsets_at(rec.ei)) \subseteq 0..n
                  /\ labels_at(pass.kind, rec.ei) \subseteq 0..(n - 1)
                  /\ <<n, rec.batch[1], rec.batch[2], rec.ei>> \in SlicesInside

C20_Witness ==
    /\ pass.kind = "train"
    /\ pass.n_examples = 2 * batch_size
    /\ cfg.n_threads = 2
    /\ \A w \in Team : InExample(w)
    /\ \E w \in Team :
          /\ workers[w].ei = pass.n_examples - 1
          /\ \E t \in Thresholds(pass.n_examples) :
                LET offsets == offsets_of(t, pass.n_examples)
                    at == slice(offsets, workers[w].batch, workers[w].ei)
                IN  /\ 0 < at.start_offset
                    /\ at.start_offset < at.end_offset
                    /\ at.end_offset = batch_features_size(offsets, workers[w].batch)
    /\ \E w \in Team : workers[w].batch = <<0, batch_size>>

=============================================================================
